---- MODULE Spec2Model ----
(***************************************************************************)
(* A model of obspy.core.event.resourceid: the _ResourceKey interner, the  *)
(* three class-level weak tables of ResourceIdentifier (_id_object_map,    *)
(* _id_order, _parent_id_tree), the get-object hooks, and the methods      *)
(* set_referred_object / get_referred_object with their helpers.           *)
(*                                                                         *)
(* A _ResourceKey instance is named by the raw value it was interned for:  *)
(* while an instance is alive, get_resource_key returns that instance for  *)
(* its raw value, and once it is reclaimed every weak row keyed by it is   *)
(* gone, so a later instance for the same raw value starts with no rows.   *)
(* An object is named by its identity (id(obj)); ObjValue gives the value  *)
(* that Python's == / != compare.                                          *)
(***************************************************************************)
EXTENDS Integers, Sequences, FiniteSets, TLC

None == "None"

\* The handle variables of the application, the id strings and parents it uses.
Handles == {"A", "B", "C"}
Slots == <<"A", "B", "C">>
Ids == {"s", "t"}
Parents == {"P1", "P2"}
Raws == Ids \cup Parents
\* The id strings the application constructs its handles with.
CoreIds == {"s"}

\* The application's objects; Y and Z are distinct objects that compare equal.
Objs == {"X", "Y", "Z"}
ObjValue == [o \in Objs |-> IF o = "X" THEN "u" ELSE "v"]

\* A get-object hook: it returns ret (when that object exists), after having
\* bound side under the id string it was called with (when side exists).
HookKinds ==
  { [ret |-> None, side |-> None],
    [ret |-> "X", side |-> None],
    [ret |-> "X", side |-> "Y"] }

\* Bound of the model: the number of operations of the application and of
\* reclamations in one behaviour.
MaxOps == 4

VARIABLES
  hs,        \* handle variable -> ResourceIdentifier instance (its __dict__)
  live,      \* the objects the application still references strongly
  cache,     \* _ResourceKey._singleton_cache: raw values with a live key
  order,     \* ResourceIdentifier._id_order: key -> list of object keys
  tree,      \* ResourceIdentifier._parent_id_tree: key -> key -> object key
  omap,      \* ResourceIdentifier._id_object_map: object key -> object
  hooks,     \* ResourceIdentifier._get_object_hook
  run,       \* the call in progress: position, locals, result, warnings
  recent,    \* history: id -> objects bound under it since its key was created
  lastBound, \* history: id -> the object bound under it last
  scoped,    \* history: <<parent, id>> -> object bound last through that scope
  lastOp,    \* history: the operation completed last and what it returned
  ops,       \* the number of operations and reclamations so far
  thr,       \* thread -> the frame of the call that thread is executing
  inst,      \* the _ResourceKey instances: the interner's rows, who holds them
  uri        \* a get_quakeml_uri_str call: the id string, its results

vars == <<hs, live, cache, order, tree, omap, hooks, run, recent, lastBound,
          scoped, lastOp, ops, thr, inst, uri>>

\* The variables of the threads and of the URI formatting.
others == <<thr, inst, uri>>

-----------------------------------------------------------------------------
\* Dictionaries

Put(f, k, v) == (k :> v) @@ f
Del(f, k) == [x \in DOMAIN f \ {k} |-> f[x]]
Without(seq, o) == SelectSeq(seq, LAMBDA e : e # o)

\* The exception (or None) of dict[k], of a WeakKeyDictionary[k] (None cannot
\* be weakly referenced) and of list[-1] / list.pop().
DictExc(f, k) == IF k \in DOMAIN f THEN None ELSE "KeyError"
WeakKeyExc(f, k) ==
  IF k = None THEN "TypeError" ELSE IF k \in DOMAIN f THEN None ELSE "KeyError"
TailExc(l) == IF Len(l) = 0 THEN "IndexError" ELSE None
Front(l) == SubSeq(l, 1, Len(l) - 1)

\* A handle: the value its id property returns, whether the id is fixed, the
\* prefix of a generated id, its two keys, its _object_id, and (history) what
\* its last resolve returned.
NoHandle ==
  [alive |-> FALSE, id |-> None, fixed |-> TRUE, prefix |-> <<>>,
   rkey |-> None, pkey |-> None, oid |-> None, res |-> None]

IdleRun ==
  [pc |-> "idle", self |-> None, obj |-> None, old |-> None, i |-> 0,
   warn |-> FALSE, parent |-> None, ret |-> None, out |-> None,
   warns |-> {}, called |-> <<>>, err |-> None, gc |-> FALSE]

NoOp ==
  [op |-> "none", h |-> None, src |-> None, obj |-> None, warn |-> FALSE,
   prev |-> None, out |-> None, warns |-> {}, called |-> <<>>]

\* The threads of the application and the frame of a thread that runs nothing.
Threads == {"T1", "T2"}
\* (a frame has the locals of a call, and for a call of get_resource_key its
\* argument, its local single and the key it returns; 0: no instance)
IdleFrame == IdleRun @@ [raw |-> None, single |-> 0, key |-> 0]
NoThreads == [t \in Threads |-> IdleFrame]

\* No _ResourceKey instance made yet: _singleton_cache is empty (0: no row).
NoInst == [cache |-> [r \in {"s", "t"} |-> 0], of |-> <<>>, kept |-> {}]

\* No get_quakeml_uri_str call.
NoUri == [stage |-> "none"]

\* The program state as one record, for the operators that compute a call.
State ==
  [hs |-> hs, live |-> live, cache |-> cache, order |-> order, tree |-> tree,
   omap |-> omap, hooks |-> hooks, run |-> run, recent |-> recent,
   lastBound |-> lastBound, scoped |-> scoped]

\* ResourceIdentifier._object_key
object_key(hr) == <<hr.oid, hr.id>>

\* _ResourceKey.get_resource_key: the key of raw, created when none is alive.
get_resource_key(S, raw) == [S EXCEPT !.cache = @ \cup {raw}]

Raise(S, e) == [S EXCEPT !.run.err = e, !.run.pc = "done"]

-----------------------------------------------------------------------------
\* set_referred_object(self, referred_object = run.obj, warn, parent)

\* old = _id_object_map.get(self._object_key, None)
bind_old(S) ==
  LET h == S.hs[S.run.self]
      k == object_key(h)
  IN IF DictExc(S.omap, k) = None
       THEN [S EXCEPT !.run.old = S.omap[k], !.run.pc = "bind_write"]
       ELSE [S EXCEPT !.run.old = None, !.run.pc = "bind_tail"]

\* (a variant that walks back over the entries whose object is gone)
bind_tail_skips_dead(S) ==
  LET h == S.hs[S.run.self]
      row == IF h.rkey \in DOMAIN S.order THEN S.order[h.rkey] ELSE <<>>
      I == {i \in 1..Len(row) : row[i] \in DOMAIN S.omap}
  IN [S EXCEPT !.run.old = IF I = {} THEN None
                           ELSE S.omap[row[CHOOSE i \in I : \A j \in I : j <= i]],
               !.run.pc = "bind_write"]

\* try: old = _id_object_map[id_order[self._resource_key][-1]]
\* except (KeyError, IndexError): pass
bind_tail(S) ==
  LET h == S.hs[S.run.self]
      e1 == WeakKeyExc(S.order, h.rkey)
      e2 == IF e1 # None THEN e1 ELSE TailExc(S.order[h.rkey])
      e3 == IF e2 # None THEN e2
            ELSE DictExc(S.omap, S.order[h.rkey][Len(S.order[h.rkey])])
  IN IF e3 = None
       THEN [S EXCEPT !.run.old = S.omap[S.order[h.rkey][Len(S.order[h.rkey])]],
                      !.run.pc = "bind_write"]
       ELSE IF e3 \in {"KeyError", "IndexError"}
              THEN [S EXCEPT !.run.pc = "bind_write"]
              ELSE Raise(S, e3)

\* (a variant that keeps the row a parent scope already has for the key)
tree_put_keeps_first(S, rkey, pkey, k) ==
  IF pkey = None THEN S
  ELSE LET row == IF pkey \in DOMAIN S.tree THEN S.tree[pkey] ELSE <<>>
       IN IF rkey \in DOMAIN row THEN S
          ELSE [S EXCEPT !.tree = Put(@, pkey, Put(row, rkey, k))]

\* if self._parent_key not in id_tree: id_tree[self._parent_key] = WeakKey...
\* id_tree[self._parent_key][self._resource_key] = self._object_key
tree_put(S, rkey, pkey, k) ==
  IF pkey = None THEN S
  ELSE LET row == IF pkey \in DOMAIN S.tree THEN S.tree[pkey] ELSE <<>>
       IN [S EXCEPT !.tree = Put(@, pkey, Put(row, rkey, k))]

\* (a variant that keeps one row per id string in the object map)
omap_put_one_per_id(S, k, o) ==
  [S EXCEPT !.omap =
     Put([x \in {y \in DOMAIN S.omap : y[2] # k[2]} |-> S.omap[x]], k, o)]

\* _id_object_map[self._object_key] = referred_object
omap_put(S, k, o) == [S EXCEPT !.omap = Put(@, k, o)]

\* (a variant that does not record the bind in _id_order)
order_append_lost(S, rkey, k) == S

\* if self._resource_key not in id_order: id_order[self._resource_key] = []
\* id_order[self._resource_key].append(self._object_key)
order_append(S, rkey, k) ==
  LET row == IF rkey \in DOMAIN S.order THEN S.order[rkey] ELSE <<>>
  IN [S EXCEPT !.order = Put(@, rkey, Append(row, k))]

\* The history of what was bound under an id and through a parent scope.
Remember(S, pkey, id, o) ==
  [S EXCEPT !.recent[id] = Append(Without(@, o), o),
            !.lastBound[id] = o,
            !.scoped = IF <<pkey, id>> \in DOMAIN @
                         THEN [@ EXCEPT ![<<pkey, id>>] = o] ELSE @]

\* The table writes of set_referred_object for a handle with the given keys
\* and id string.
bind_tables(S, rkey, pkey, id, o) ==
  LET k == <<o, id>>
  IN Remember(order_append(omap_put(tree_put(S, rkey, pkey, k), k, o), rkey, k),
              pkey, id, o)

\* The warning, then the writes: self._object_id, the parent key, the tables.
bind_write(S) ==
  LET r == S.run
      h == S.hs[r.self]
      conflict == r.warn /\ r.old # None /\ ObjValue[r.old] # ObjValue[r.obj]
      S1 == IF r.parent # None THEN get_resource_key(S, r.parent) ELSE S
      pk == IF r.parent # None THEN r.parent ELSE h.pkey
      S2 == [S1 EXCEPT !.hs[r.self].oid = r.obj, !.hs[r.self].pkey = pk]
      S3 == bind_tables(S2, h.rkey, pk, h.id, r.obj)
  IN [S3 EXCEPT !.run.warns = IF conflict THEN @ \cup {"RebindingConflict"} ELSE @,
                !.run.out = IF r.ret = "app" THEN None ELSE r.obj,
                !.run.old = None,
                !.run.pc = "done"]

-----------------------------------------------------------------------------
\* get_referred_object(self)

\* (a variant that looks the object up by the id string alone)
direct_by_id_only(S) == [S EXCEPT !.run.pc = "similar"]

\* (a variant that binds the object again when the direct lookup finds it)
direct_rebinds(S) ==
  LET h == S.hs[S.run.self]
  IN IF object_key(h) \in DOMAIN S.omap
       THEN [S EXCEPT !.run.obj = S.omap[object_key(h)], !.run.warn = FALSE,
                      !.run.parent = None, !.run.ret = "similar",
                      !.run.pc = "bind_old"]
       ELSE [S EXCEPT !.run.pc = "similar"]

\* try: out = _id_object_map[self._object_key]; except KeyError: ...similar
direct(S) ==
  LET h == S.hs[S.run.self]
      e == DictExc(S.omap, object_key(h))
  IN IF e = None
       THEN [S EXCEPT !.run.out = S.omap[object_key(h)], !.run.pc = "done"]
       ELSE IF e = "KeyError" THEN [S EXCEPT !.run.pc = "similar"]
       ELSE Raise(S, e)

\* (a variant that ignores the parent scope)
get_object_from_parent_scope_off(S, h) == None

\* _get_object_from_parent_scope: the object, or None
get_object_from_parent_scope(S, h) ==
  LET e1 == WeakKeyExc(S.tree, h.pkey)
      e2 == IF e1 # None THEN e1 ELSE WeakKeyExc(S.tree[h.pkey], h.rkey)
  IN IF e2 # None THEN None
     ELSE LET k == S.tree[h.pkey][h.rkey]
          IN IF DictExc(S.omap, k) # None THEN None
             ELSE IF k[2] = h.id THEN S.omap[k] ELSE None

\* (a variant that tries the newest object before the parent scope)
similar_newest_first(S) ==
  LET h == S.hs[S.run.self]
      row == IF h.rkey \in DOMAIN S.order THEN S.order[h.rkey] ELSE <<>>
      fresh == Len(row) > 0 /\ row[Len(row)] \in DOMAIN S.omap
      obj == get_object_from_parent_scope(S, h)
  IN IF fresh \/ obj = None
       THEN [S EXCEPT !.run.pc = "newest"]
       ELSE [S EXCEPT !.run.obj = obj, !.run.warn = FALSE,
                      !.run.parent = None, !.run.ret = "similar",
                      !.run.pc = "bind_old"]

\* _get_similar_referred_object up to the parent scope lookup: the warning
\* for a lost object, then the parent scope.
similar(S) ==
  LET h == S.hs[S.run.self]
      S1 == IF h.oid # None
              THEN [S EXCEPT !.run.warns = @ \cup {"LivenessLost"}] ELSE S
      obj == get_object_from_parent_scope(S, h)
  IN IF obj # None
       THEN [S1 EXCEPT !.run.obj = obj, !.run.warn = FALSE,
                       !.run.parent = None, !.run.ret = "similar",
                       !.run.pc = "bind_old"]
       ELSE [S1 EXCEPT !.run.pc = "newest"]

\* (a variant that gives up at the first entry whose object is gone)
newest_stops_at_dead(S) ==
  LET h == S.hs[S.run.self]
      row == IF h.rkey \in DOMAIN S.order THEN S.order[h.rkey] ELSE <<>>
  IN IF Len(row) > 0 /\ row[Len(row)] \in DOMAIN S.omap
       THEN [S EXCEPT !.run.obj = S.omap[row[Len(row)]], !.run.warn = FALSE,
                      !.run.parent = None, !.run.ret = "similar",
                      !.run.pc = "bind_old"]
       ELSE [S EXCEPT !.run.i = 1, !.run.pc = "hooks"]

\* (a variant that does not catch the KeyError of an object that is gone)
newest_uncaught(S) ==
  LET h == S.hs[S.run.self]
      row == IF h.rkey \in DOMAIN S.order THEN S.order[h.rkey] ELSE <<>>
  IN IF Len(row) = 0 THEN [S EXCEPT !.run.i = 1, !.run.pc = "hooks"]
     ELSE IF row[Len(row)] \notin DOMAIN S.omap THEN Raise(S, "KeyError")
     ELSE [S EXCEPT !.run.obj = S.omap[row[Len(row)]], !.run.warn = FALSE,
                    !.run.parent = None, !.run.ret = "similar",
                    !.run.pc = "bind_old"]

\* (a variant that does not compare the entry's id string with self.id)
newest_any_id(S) ==
  LET h == S.hs[S.run.self]
      row == IF h.rkey \in DOMAIN S.order THEN S.order[h.rkey] ELSE <<>>
  IN IF Len(row) = 0 THEN [S EXCEPT !.run.i = 1, !.run.pc = "hooks"]
     ELSE IF row[Len(row)] \notin DOMAIN S.omap
            THEN [S EXCEPT !.order[h.rkey] = Front(row)]
     ELSE [S EXCEPT !.run.obj = S.omap[row[Len(row)]], !.run.warn = FALSE,
                    !.run.parent = None, !.run.ret = "similar",
                    !.run.pc = "bind_old"]

\* (a variant that also removes the entry whose object it returns)
newest_pops_returned(S) ==
  LET h == S.hs[S.run.self]
      row == IF h.rkey \in DOMAIN S.order THEN S.order[h.rkey] ELSE <<>>
      k == row[Len(row)]
  IN IF Len(row) = 0 THEN [S EXCEPT !.run.i = 1, !.run.pc = "hooks"]
     ELSE IF k \notin DOMAIN S.omap \/ k[2] # h.id
            THEN [S EXCEPT !.order[h.rkey] = Front(row)]
     ELSE [S EXCEPT !.order[h.rkey] = Front(row),
                    !.run.obj = S.omap[k], !.run.warn = FALSE,
                    !.run.parent = None, !.run.ret = "similar",
                    !.run.pc = "bind_old"]

\* _get_newest_object_with_same_resource_id: one turn of its loop. Without an
\* object the caller returns None and get_referred_object goes to the hooks.
newest(S) ==
  LET h == S.hs[S.run.self]
      e1 == WeakKeyExc(S.order, h.rkey)
      list == S.order[h.rkey]
      k == list[Len(list)]
      popped == [S EXCEPT !.order[h.rkey] = Front(list)]
      tohooks == [S EXCEPT !.run.i = 1, !.run.pc = "hooks"]
  IN IF e1 = "KeyError" THEN tohooks
     ELSE IF e1 # None THEN Raise(S, e1)
     ELSE IF Len(list) = 0 THEN tohooks
     ELSE IF TailExc(list) # None THEN Raise(S, TailExc(list))
     ELSE IF DictExc(S.omap, k) = "KeyError" THEN popped
     ELSE IF k[2] # h.id THEN popped
     ELSE [S EXCEPT !.run.obj = S.omap[k], !.run.warn = FALSE,
                    !.run.parent = None, !.run.ret = "similar",
                    !.run.pc = "bind_old"]

\* What hook k returns for a call, and what it does before returning.
HookRet(S, k) == IF k.ret \in S.live THEN k.ret ELSE None
HookEffect(S, k, id) ==
  IF k.side \in S.live
    THEN bind_tables(get_resource_key(S, id), id, None, id, k.side)
    ELSE S

\* (a variant that iterates the hooks newest first)
hook_loop_newest_first(S) ==
  LET r == S.run
      h == S.hs[r.self]
      n == Len(S.hooks) + 1 - r.i
  IN IF r.i > Len(S.hooks) THEN [S EXCEPT !.run.out = None, !.run.pc = "done"]
     ELSE LET k == S.hooks[n]
              S1 == HookEffect(S, k, h.id)
              S2 == [S1 EXCEPT !.run.called = Append(@, <<n, h.id>>)]
          IN IF HookRet(S, k) # None
               THEN [S2 EXCEPT !.run.obj = HookRet(S, k), !.run.warn = TRUE,
                               !.run.parent = None, !.run.ret = "hook",
                               !.run.pc = "bind_old"]
               ELSE [S2 EXCEPT !.run.i = r.i + 1]

\* for hook in self._get_object_hook: out = hook(self.id); if out is not
\* None: self.set_referred_object(out); return out
hook_loop(S) ==
  LET r == S.run
      h == S.hs[r.self]
  IN IF r.i > Len(S.hooks) THEN [S EXCEPT !.run.out = None, !.run.pc = "done"]
     ELSE LET k == S.hooks[r.i]
              S1 == HookEffect(S, k, h.id)
              S2 == [S1 EXCEPT !.run.called = Append(@, <<r.i, h.id>>)]
          IN IF HookRet(S, k) # None
               THEN [S2 EXCEPT !.run.obj = HookRet(S, k), !.run.warn = TRUE,
                               !.run.parent = None, !.run.ret = "hook",
                               !.run.pc = "bind_old"]
               ELSE [S2 EXCEPT !.run.i = r.i + 1]

\* One step of the call in progress.
Step(S) ==
  CASE S.run.pc = "direct" -> direct(S)
    [] S.run.pc = "similar" -> similar(S)
    [] S.run.pc = "newest" -> newest(S)
    [] S.run.pc = "hooks" -> hook_loop(S)
    [] S.run.pc = "bind_old" -> bind_old(S)
    [] S.run.pc = "bind_tail" -> bind_tail(S)
    [] S.run.pc = "bind_write" -> bind_write(S)

\* A call run to its end without anything happening in between.
RECURSIVE Run(_)
Run(S) == IF S.run.pc = "done" THEN S ELSE Run(Step(S))

StartResolve(S, h) == [S EXCEPT !.run = [IdleRun EXCEPT !.pc = "direct", !.self = h]]
StartBind(S, h, o, w, p) ==
  [S EXCEPT !.run = [IdleRun EXCEPT !.pc = "bind_old", !.self = h, !.obj = o,
                                    !.warn = w, !.parent = p, !.ret = "app"]]

get_referred_object(S, h) == Run(StartResolve(S, h))
set_referred_object(S, h, o, w, p) == Run(StartBind(S, h, o, w, p))

\* ResourceIdentifier.__init__(id, parent = p) with a string id.
init_handle(S, h, id, p) ==
  LET S1 == get_resource_key(S, id)
      S2 == IF p # None THEN get_resource_key(S1, p) ELSE S1
  IN [S2 EXCEPT !.hs[h] = [alive |-> TRUE, id |-> id, fixed |-> TRUE,
                           prefix |-> <<>>, rkey |-> id, pkey |-> p,
                           oid |-> None, res |-> None]]

-----------------------------------------------------------------------------
\* Weak references

\* The last strong reference to o is dropped: its _id_object_map rows vanish.
forget_object(S, o) ==
  [S EXCEPT !.live = @ \ {o},
            !.omap = [k \in {x \in DOMAIN S.omap : S.omap[x] # o} |-> S.omap[k]]]

\* The objects the locals of the call in progress refer to.
Held(r) == {r.obj, r.old, r.out} \ {None}

KeyHeld(S, k) ==
  \E h \in Handles : S.hs[h].alive /\ (S.hs[h].rkey = k \/ S.hs[h].pkey = k)

\* (a variant in which _id_order holds its keys strongly)
forget_key_keeps_order(S, k) ==
  [S EXCEPT !.cache = @ \ {k},
            !.tree = [p \in DOMAIN S.tree \ {k} |-> Del(S.tree[p], k)],
            !.recent = [s \in Ids |-> IF s = k THEN <<>> ELSE @[s]],
            !.scoped = [x \in Parents \X Ids |->
                          IF x[1] = k \/ x[2] = k THEN None ELSE @[x]]]

\* Key k is reclaimed: its rows in the three weak-keyed tables vanish.
forget_key(S, k) ==
  [S EXCEPT !.cache = @ \ {k},
            !.order = Del(@, k),
            !.tree = [p \in DOMAIN S.tree \ {k} |-> Del(S.tree[p], k)],
            !.recent = [s \in Ids |-> IF s = k THEN <<>> ELSE @[s]],
            !.scoped = [x \in Parents \X Ids |->
                          IF x[1] = k \/ x[2] = k THEN None ELSE @[x]]]

-----------------------------------------------------------------------------
\* The application's operations

Commit(S) ==
  /\ hs' = S.hs
  /\ live' = S.live
  /\ cache' = S.cache
  /\ order' = S.order
  /\ tree' = S.tree
  /\ omap' = S.omap
  /\ hooks' = S.hooks
  /\ recent' = S.recent
  /\ lastBound' = S.lastBound
  /\ scoped' = S.scoped

\* The application takes its free handle variables in a fixed order.
FirstFree(h) ==
  \E i \in 1..Len(Slots) :
    /\ Slots[i] = h
    /\ ~hs[h].alive
    /\ \A j \in 1..(i - 1) : hs[Slots[j]].alive

Tick == ops < MaxOps /\ ops' = ops + 1

Init ==
  /\ hs = [h \in Handles |-> NoHandle]
  /\ live = Objs
  /\ cache = {}
  /\ order = <<>>
  /\ tree = <<>>
  /\ omap = <<>>
  /\ hooks = <<>>
  /\ run = IdleRun
  /\ recent = [s \in Ids |-> <<>>]
  /\ lastBound = [s \in Ids |-> None]
  /\ scoped = [x \in Parents \X Ids |-> None]
  /\ lastOp = NoOp
  /\ ops = 0
  /\ thr = NoThreads
  /\ inst = NoInst
  /\ uri = NoUri

\* h = ResourceIdentifier(id, parent = p, referred_object = o)
Construct(h, id, p, o) ==
  /\ UNCHANGED others
  /\ run.pc = "idle"
  /\ Tick
  /\ FirstFree(h)
  /\ o \in live \cup {None}
  /\ LET S1 == init_handle(State, h, id, p)
         S2 == IF o = None THEN S1 ELSE set_referred_object(S1, h, o, TRUE, None)
     IN /\ Commit(S2)
        /\ run' = IdleRun
        /\ lastOp' = IF o = None THEN [NoOp EXCEPT !.op = "other"]
                     ELSE [NoOp EXCEPT !.op = "bind", !.h = h, !.obj = o,
                                       !.warn = TRUE, !.warns = S2.run.warns]

\* h goes out of scope.
Drop(h) ==
  /\ UNCHANGED others
  /\ run.pc = "idle"
  /\ Tick
  /\ hs[h].alive
  /\ hs' = [hs EXCEPT ![h] = NoHandle]
  /\ lastOp' = [NoOp EXCEPT !.op = "other"]
  /\ UNCHANGED <<live, cache, order, tree, omap, hooks, run, recent, lastBound,
                 scoped>>

\* h.set_referred_object(o, warn = w, parent = p)
Bind(h, o, w, p) ==
  /\ UNCHANGED others
  /\ run.pc = "idle"
  /\ Tick
  /\ hs[h].alive
  /\ o \in live
  /\ LET S1 == set_referred_object(State, h, o, w, p)
         S2 == [S1 EXCEPT !.hs[h].res = None]
     IN /\ Commit(S2)
        /\ run' = IdleRun
        /\ lastOp' = [NoOp EXCEPT !.op = "bind", !.h = h, !.obj = o, !.warn = w,
                                  !.prev = IF hs[h].oid \in live THEN hs[h].oid
                                           ELSE None,
                                  !.warns = S1.run.warns]

\* h.get_referred_object()
Resolve(h) ==
  /\ UNCHANGED others
  /\ run.pc = "idle"
  /\ Tick
  /\ hs[h].alive
  /\ LET S1 == get_referred_object(State, h)
         S2 == [S1 EXCEPT !.hs[h].res = S1.run.out]
     IN /\ Commit(S2)
        /\ run' = IdleRun
        /\ lastOp' = [NoOp EXCEPT !.op = "resolve", !.h = h, !.out = S1.run.out,
                                  !.warns = S1.run.warns,
                                  !.called = S1.run.called]

\* The application drops its last reference to o.
KillObj(o) ==
  /\ UNCHANGED others
  /\ Tick
  /\ o \in live
  /\ o \notin Held(run)
  /\ Commit(forget_object(State, o))
  /\ run' = IF run.pc = "idle" THEN run ELSE [run EXCEPT !.gc = TRUE]
  /\ lastOp' = IF run.pc = "idle" THEN [NoOp EXCEPT !.op = "other"] ELSE lastOp

\* A key no handle holds any more is reclaimed.
ReclaimKey(k) ==
  /\ UNCHANGED others
  /\ Tick
  /\ k \in cache \cup DOMAIN tree
  /\ ~KeyHeld(State, k)
  /\ Commit(forget_key(State, k))
  /\ lastOp' = IF run.pc = "idle" THEN [NoOp EXCEPT !.op = "other"] ELSE lastOp
  /\ UNCHANGED run

\* ResourceIdentifier.register_get_object_hook(k)
RegisterHook(k) ==
  /\ UNCHANGED others
  /\ run.pc = "idle"
  /\ Tick
  /\ hooks' = Append(hooks, k)
  /\ lastOp' = [NoOp EXCEPT !.op = "other"]
  /\ UNCHANGED <<hs, live, cache, order, tree, omap, run, recent, lastBound,
                 scoped>>

Next ==
  \/ \E h \in Handles, id \in CoreIds, p \in Parents \cup {None},
        o \in Objs \cup {None} : Construct(h, id, p, o)
  \/ \E h \in Handles : Drop(h)
  \/ \E h \in Handles, o \in Objs, w \in BOOLEAN : Bind(h, o, w, None)
  \/ \E h \in Handles : Resolve(h)
  \/ \E o \in Objs : KillObj(o)
  \/ \E k \in Raws : ReclaimKey(k)
  \/ \E k \in HookKinds : RegisterHook(k)

Spec == Init /\ [][Next]_vars

-----------------------------------------------------------------------------
\* get_referred_object taken one step at a time, with objects and keys
\* reclaimed between any two of its steps; no hook is registered.

Call(h) ==
  /\ UNCHANGED others
  /\ run.pc = "idle"
  /\ Tick
  /\ hs[h].alive
  /\ run' = StartResolve(State, h).run
  /\ UNCHANGED <<hs, live, cache, order, tree, omap, hooks, recent, lastBound,
                 scoped, lastOp>>

StepCall ==
  /\ UNCHANGED others
  /\ run.pc \notin {"idle", "done"}
  /\ Commit(Step(State))
  /\ run' = Step(State).run
  /\ UNCHANGED <<lastOp, ops>>

Return ==
  /\ UNCHANGED others
  /\ run.pc = "done"
  /\ hs' = [hs EXCEPT ![run.self].res = run.out]
  /\ run' = IdleRun
  /\ lastOp' = [NoOp EXCEPT !.op = "resolve", !.h = run.self, !.out = run.out,
                            !.warns = run.warns, !.called = run.called]
  /\ UNCHANGED <<live, cache, order, tree, omap, hooks, recent, lastBound,
                 scoped, ops>>

NextGC ==
  \/ \E h \in Handles, id \in CoreIds, p \in Parents \cup {None},
        o \in Objs \cup {None} : Construct(h, id, p, o)
  \/ \E h \in Handles : Drop(h)
  \/ \E h \in Handles, o \in Objs, w \in BOOLEAN : Bind(h, o, w, None)
  \/ \E h \in Handles : Call(h)
  \/ StepCall
  \/ Return
  \/ \E o \in Objs : KillObj(o)
  \/ \E k \in Raws : ReclaimKey(k)

SpecGC == Init /\ [][NextGC]_vars

-----------------------------------------------------------------------------
\* What the claims are stated with

\* What h.get_referred_object() would return if it were called now.
Out(h) == get_referred_object(State, h).run.out

\* The hooks a call of h.get_referred_object() made now would invoke.
Calls(h) == get_referred_object(State, h).run.called

Alive(h) == hs[h].alive
Unbound(h) == hs[h].oid = None
SameId(a, b) == hs[a].id = hs[b].id

\* The last object of a sequence of objects that is still live, or None.
LastLive(seq) ==
  LET I == {i \in 1..Len(seq) : seq[i] \in live}
  IN IF I = {} THEN None ELSE seq[CHOOSE i \in I : \A j \in I : j <= i]

\* The object h's own binding names, when it is still live.
OwnLive(h) == IF hs[h].oid \in live THEN hs[h].oid ELSE None

\* The object bound last through h's parent scope, when it is still live.
ScopeLive(h) ==
  IF hs[h].pkey # None /\ scoped[<<hs[h].pkey, hs[h].id>>] \in live
    THEN scoped[<<hs[h].pkey, hs[h].id>>] ELSE None

\* The four sources of get_referred_object for handle h, read off the tables.
DirectCand(h) ==
  IF object_key(hs[h]) \in DOMAIN omap THEN omap[object_key(hs[h])] ELSE None
ScopeCand(h) ==
  IF /\ hs[h].pkey \in DOMAIN tree
     /\ hs[h].rkey \in DOMAIN tree[hs[h].pkey]
     /\ tree[hs[h].pkey][hs[h].rkey] \in DOMAIN omap
     /\ tree[hs[h].pkey][hs[h].rkey][2] = hs[h].id
    THEN omap[tree[hs[h].pkey][hs[h].rkey]] ELSE None
RecencyCand(h) ==
  LET row == IF hs[h].rkey \in DOMAIN order THEN order[hs[h].rkey] ELSE <<>>
      I == {i \in 1..Len(row) : row[i] \in DOMAIN omap /\ row[i][2] = hs[h].id}
  IN IF I = {} THEN None ELSE omap[row[CHOOSE i \in I : \A j \in I : j <= i]]
Supplying == {i \in 1..Len(hooks) : hooks[i].ret \in live}
FirstSupplying == CHOOSE i \in Supplying : \A j \in Supplying : i <= j
HookCand == IF Supplying = {} THEN None ELSE hooks[FirstSupplying].ret
InternalCand(h) ==
  IF DirectCand(h) # None THEN DirectCand(h)
  ELSE IF ScopeCand(h) # None THEN ScopeCand(h)
  ELSE RecencyCand(h)

-----------------------------------------------------------------------------
\* C1 as stated: after A.bind(X), every handle B with the same id string
\* resolves to X, whatever B was bound to or resolved to earlier.
C1_AsStated ==
  lastOp.op = "bind" =>
    \A b \in Handles :
      Alive(b) /\ SameId(b, lastOp.h) => Out(b) = lastOp.obj

\* C1 amended: after A.bind(X), every handle B with the same id string whose
\* own binding and whose parent scope name no other object that is still live
\* resolves to X.
C1_BindReachesOtherHandles ==
  lastOp.op = "bind" =>
    \A b \in Handles :
      /\ Alive(b) /\ SameId(b, lastOp.h)
      /\ OwnLive(b) \in {None, lastOp.obj}
      /\ ScopeLive(b) \in {None, lastOp.obj}
      => Out(b) = lastOp.obj

\* C1 witness: a handle bound earlier to an object that is gone, and another
\* handle with the same id has just been bound to X: the first resolves to X.
C1_Witness ==
  /\ lastOp.op = "bind"
  /\ \E b \in Handles \ {lastOp.h} :
       /\ Alive(b) /\ SameId(b, lastOp.h)
       /\ ~Unbound(b) /\ hs[b].oid \notin live
       /\ Out(b) = lastOp.obj

\* C2 as stated: a handle newly constructed with an id, with no parent and no
\* binding, resolves to the object bound last under that id while that object
\* is live, also after every handle with that id went out of scope.
C2_AsStated ==
  \A h \in Handles :
    /\ Alive(h) /\ Unbound(h) /\ hs[h].pkey = None
    /\ lastBound[hs[h].id] \in live
    => Out(h) = lastBound[hs[h].id]

\* C2 amended: the binding survives the handle that made it as long as the
\* ResourceKey of the id has not been reclaimed since the bind; once the key
\* was reclaimed (every handle with the id went out of scope) the new handle
\* resolves to absent unless a hook supplies an object.
C2_BindingSurvivesWhileKeyLives ==
  \A h \in Handles :
    /\ Alive(h) /\ Unbound(h) /\ hs[h].pkey = None
    /\ lastBound[hs[h].id] \in live
    => /\ recent[hs[h].id] # <<>> => Out(h) = lastBound[hs[h].id]
       /\ recent[hs[h].id] = <<>> /\ Supplying = {} => Out(h) = None

\* C2 witness: no handle bound to X is left, X is live, and a fresh handle
\* with the id resolves to X.
C2_Witness ==
  \E h \in Handles :
    /\ Alive(h) /\ Unbound(h) /\ hs[h].pkey = None
    /\ lastBound[hs[h].id] \in live
    /\ \A g \in Handles : hs[g].oid # lastBound[hs[h].id]
    /\ Out(h) = lastBound[hs[h].id]

\* C3: get_referred_object returns the object of the first of direct lookup,
\* parent scope, recency fallback and hooks that yields one.
C3_PriorityOrder ==
  [][lastOp'.op = "resolve" =>
       lastOp'.out = IF InternalCand(lastOp'.h) # None
                       THEN InternalCand(lastOp'.h) ELSE HookCand]_vars

\* C3 witness: a resolve returned an object without invoking a hook although
\* a registered hook would have supplied another object.
C3_Witness ==
  /\ lastOp.op = "resolve"
  /\ lastOp.out # None
  /\ lastOp.called = <<>>
  /\ HookCand \notin {None, lastOp.out}

\* C4 as stated: A is bound to X and B has resolved to X; A is rebound to Y,
\* not equal to X, with warn = true while X exists: a RebindingConflict is
\* signalled and B then resolves to Y.
C4_AsStated ==
  /\ lastOp.op = "bind" /\ lastOp.warn /\ lastOp.prev # None
  /\ ObjValue[lastOp.prev] # ObjValue[lastOp.obj]
  => /\ "RebindingConflict" \in lastOp.warns
     /\ \A b \in Handles \ {lastOp.h} :
          Alive(b) /\ SameId(b, lastOp.h) /\ hs[b].res = lastOp.prev
          => Out(b) = lastOp.obj

\* C4 amended: in that scenario a RebindingConflict is signalled, B keeps
\* resolving to X while X is live, and a handle with the id that has no
\* binding and no parent resolves to Y.
C4_RebindKeepsResolvedHandle ==
  /\ lastOp.op = "bind" /\ lastOp.warn /\ lastOp.prev # None
  /\ ObjValue[lastOp.prev] # ObjValue[lastOp.obj]
  => /\ "RebindingConflict" \in lastOp.warns
     /\ \A b \in Handles \ {lastOp.h} :
          /\ Alive(b) /\ SameId(b, lastOp.h) /\ hs[b].res = lastOp.prev
             => Out(b) = lastOp.prev
          /\ Alive(b) /\ SameId(b, lastOp.h) /\ Unbound(b) /\ hs[b].pkey = None
             => Out(b) = lastOp.obj

\* C4 witness: the rebind has happened with a handle B that resolved to X.
C4_Witness ==
  /\ lastOp.op = "bind" /\ lastOp.warn /\ lastOp.prev # None
  /\ ObjValue[lastOp.prev] # ObjValue[lastOp.obj]
  /\ \E b \in Handles \ {lastOp.h} :
       Alive(b) /\ SameId(b, lastOp.h) /\ hs[b].res = lastOp.prev

\* C5: once h.get_referred_object() has returned X, it returns X for as long
\* as X is live and h is not rebound, whatever other handles do.
C5_BoundOnceResolved ==
  \A h \in Handles :
    Alive(h) /\ hs[h].res \in live => Out(h) = hs[h].res

\* C5 witness: h resolved to X, another object was bound under the id since,
\* and h still resolves to X.
C5_Witness ==
  \E h \in Handles :
    /\ Alive(h) /\ hs[h].res \in live
    /\ lastOp.op = "bind" /\ lastOp.h # h
    /\ lastBound[hs[h].id] \in live \ {hs[h].res}
    /\ Out(h) = hs[h].res

C7_HooksLastAndFifo ==
  [][lastOp'.op = "resolve" =>
       lastOp'.called =
         IF InternalCand(lastOp'.h) # None THEN <<>>
         ELSE [i \in 1..(IF Supplying = {} THEN Len(hooks) ELSE FirstSupplying)
                 |-> <<i, hs[lastOp'.h].id>>]]_vars

\* C7 witness: the first hook supplied the object and the hook registered
\* after it was not invoked.
C7_Witness ==
  /\ lastOp.op = "resolve"
  /\ lastOp.out # None
  /\ Len(lastOp.called) >= 1
  /\ Len(lastOp.called) < Len(hooks)

\* C8: a resolve that succeeds through a hook signals no RebindingConflict,
\* also when the hook bound other objects under the id before returning; the
\* handle then resolves to that object without invoking a hook.
C8_AsStated ==
  lastOp.op = "resolve" /\ lastOp.called # <<>> /\ lastOp.out # None
  => /\ "RebindingConflict" \notin lastOp.warns
     /\ Out(lastOp.h) = lastOp.out
     /\ Calls(lastOp.h) = <<>>

C10_ResolveNeverRaises ==
  run.pc = "done" => run.err = None /\ run.out \in live \cup {None}

\* C10 witness: a call returned absent after an object was reclaimed while it
\* was running.
C10_Witness ==
  run.pc = "done" /\ run.gc /\ run.out = None /\ run.err = None

-----------------------------------------------------------------------------
\* The object set_referred_object compares with, read off the tables before
\* the bind: the one under the handle's own object key, else the one of an
\* entry of the _id_order row of the handle's key.
OwnOld(oid, id) ==
  IF <<oid, id>> \in DOMAIN omap THEN omap[<<oid, id>>] ELSE None
OrderRow(rkey) == IF rkey \in DOMAIN order THEN order[rkey] ELSE <<>>
TailOld(rkey) ==
  LET row == OrderRow(rkey)
  IN IF Len(row) > 0 /\ row[Len(row)] \in DOMAIN omap
       THEN omap[row[Len(row)]] ELSE None
NewestLiveOld(rkey) ==
  LET row == OrderRow(rkey)
      I == {i \in 1..Len(row) : row[i] \in DOMAIN omap}
  IN IF I = {} THEN None ELSE omap[row[CHOOSE i \in I : \A j \in I : j <= i]]

\* A bind of object o through handle h was carried out by the step.
Carried(h, o) ==
  /\ hs'[h].oid = o
  /\ <<o, hs'[h].id>> \in DOMAIN omap' /\ omap'[<<o, hs'[h].id>>] = o
  /\ hs'[h].rkey \in DOMAIN order'
  /\ order'[hs'[h].rkey][Len(order'[hs'[h].rkey])] = <<o, hs'[h].id>>

\* A bind step signals RebindingConflict exactly when warn is set and old
\* exists and is not equal to the object bound.
SignalsIff(old) ==
  "RebindingConflict" \in lastOp'.warns
    <=> /\ lastOp'.warn /\ old # None
        /\ ObjValue[old] # ObjValue[lastOp'.obj]

\* C11 as stated: bind signals a RebindingConflict exactly when warn is true
\* and old exists and is not equal to the object, old being the object under
\* the handle's own CompositeKey or else the most recent live object of the
\* Assignment Order row, entries whose object is dead being skipped; the bind
\* is carried out in either case.
C11_AsStated ==
  [][lastOp'.op = "bind" =>
       LET h == lastOp'.h
           own == OwnOld(hs[h].oid, hs'[h].id)
           old == IF own # None THEN own ELSE NewestLiveOld(hs'[h].rkey)
       IN SignalsIff(old) /\ Carried(h, lastOp'.obj)]_vars

\* C11 amended: old is the object under the handle's own CompositeKey or else
\* the object of the last entry of the Assignment Order row when that object
\* is live; when the last entry's object is dead, old is absent and nothing
\* is signalled, whatever live objects earlier entries name.
C11_ConflictSignalledIff ==
  [][lastOp'.op = "bind" =>
       LET h == lastOp'.h
           own == OwnOld(hs[h].oid, hs'[h].id)
           old == IF own # None THEN own ELSE TailOld(hs'[h].rkey)
       IN SignalsIff(old) /\ Carried(h, lastOp'.obj)]_vars

\* C11 witness: a bind with warn set through a handle without a live binding
\* of its own signalled the conflict with the object bound last under the id.
C11_Witness ==
  /\ lastOp.op = "bind" /\ lastOp.warn /\ lastOp.prev = None
  /\ "RebindingConflict" \in lastOp.warns
  /\ hs[lastOp.h].oid = lastOp.obj

-----------------------------------------------------------------------------
\* get_quakeml_uri_str. An id string is the sequence of its characters.

Smi == <<"s", "m", "i">>
Quakeml == <<"q", "u", "a", "k", "e", "m", "l">>
Local == <<"l", "o", "c", "a", "l">>

\* The character classes of the regular expression: [\w\d], the punctuation
\* of [\w\d\-\.\*\(\)_~'] and what [\w\d\-\.\*\(\)\+\?_~'=,;#/&] adds to it.
WordChars ==
  {"a", "b", "c", "e", "i", "k", "l", "m", "o", "q", "s", "u", "0", "9", "_"}
HeadChars == WordChars \cup {"-", ".", "*", "(", ")", "~", "'"}
TailChars == HeadChars \cup {"+", "?", "=", ",", ";", "#", "/", "&"}
Whitespace == {" ", "\t", "\n"}

\* str.strip() == ""
Blank(s) == \A i \in 1..Len(s) : s[i] \in Whitespace

StartsWith(s, p) == Len(s) >= Len(p) /\ SubSeq(s, 1, Len(p)) = p
From(s, i) == SubSeq(s, i, Len(s))

\* re.match(regex, s) is not None. The final $ matches at the end of the
\* string and also before a newline that ends it.
Matches(s) ==
  LET body == IF Len(s) > 0 /\ s[Len(s)] = "\n" THEN Front(s) ELSE s
  IN \E scheme \in {Smi, Quakeml} :
       /\ StartsWith(body, scheme \o <<":">>)
       /\ LET rest == From(body, Len(scheme) + 2)
          IN \E n \in 3..Len(rest) :
               /\ rest[1] \in WordChars
               /\ \A i \in 2..n : rest[i] \in HeadChars
               /\ Len(rest) >= n + 2
               /\ rest[n + 1] = "/"
               /\ rest[n + 2] \in HeadChars
               /\ \A i \in (n + 3)..Len(rest) : rest[i] \in TailChars

\* (a variant that prefixes the id without looking at it first)
get_quakeml_uri_str_always_prefixes(self_id, authority_id, uuid) ==
  LET id2 == Smi \o <<":">> \o authority_id \o <<"/">> \o self_id
  IN IF Matches(id2) THEN [self_id |-> self_id, err |-> None, ret |-> id2]
     ELSE [self_id |-> self_id, err |-> "ValueError", ret |-> <<>>]

\* ResourceIdentifier.get_quakeml_uri_str(authority_id) of a handle whose
\* id string is self_id; uuid is what str(uuid4()) returns when it is called.
\* The result: the handle's id string afterwards, the exception or None, and
\* the string returned.
get_quakeml_uri_str(self_id, authority_id, uuid) ==
  LET id1 == IF Blank(self_id) THEN uuid ELSE self_id
      id2 == Smi \o <<":">> \o authority_id \o <<"/">> \o id1
  IN IF Matches(id1) THEN [self_id |-> self_id, err |-> None, ret |-> id1]
     ELSE IF Matches(id2) THEN [self_id |-> self_id, err |-> None, ret |-> id2]
     ELSE [self_id |-> self_id, err |-> "ValueError", ret |-> <<>>]

\* Bounds of the id strings formatted: the lengths of the two segments.
MaxSeg1 == 3
MaxSeg2 == 2

SeqsUpTo(A, n) == UNION {[1..k -> A] : k \in 0..n}

\* The id strings formatted: a scheme or none, a first segment, a slash or
\* none, a second segment, a final newline or none.
InputIds ==
  { pre \o s1 \o sep \o s2 \o nl :
      pre \in {<<>>, Smi \o <<":">>, Quakeml \o <<":">>, <<"s", "m", ":">>},
      s1 \in SeqsUpTo({"a", "-", " "}, MaxSeg1),
      sep \in {<<>>, <<"/">>},
      s2 \in SeqsUpTo({"a", "+", ":", "/"}, MaxSeg2),
      nl \in {<<>>, <<"\n">>} }
Authorities == {Local, <<"x">>}
Uuids == {<<"0", "c", "-", "9">>, <<"b", "e", "-", "0">>}

InitUri ==
  /\ hs = [h \in Handles |-> NoHandle]
  /\ live = Objs
  /\ cache = {}
  /\ order = <<>>
  /\ tree = <<>>
  /\ omap = <<>>
  /\ hooks = <<>>
  /\ run = IdleRun
  /\ recent = [s \in Ids |-> <<>>]
  /\ lastBound = [s \in Ids |-> None]
  /\ scoped = [x \in Parents \X Ids |-> None]
  /\ lastOp = NoOp
  /\ ops = 0
  /\ thr = NoThreads
  /\ inst = NoInst
  /\ \E i \in InputIds, a \in Authorities :
       uri = [stage |-> "new", id |-> i, authority |-> a, err |-> None,
              ret |-> <<>>, id2 |-> <<>>, err2 |-> None, ret2 |-> <<>>]

\* s = rid.get_quakeml_uri_str(authority)
Format(u) ==
  /\ uri.stage = "new"
  /\ LET r == get_quakeml_uri_str(uri.id, uri.authority, u)
     IN uri' = [uri EXCEPT !.stage = "formatted", !.id = r.self_id,
                           !.err = r.err, !.ret = r.ret]
  /\ UNCHANGED <<hs, live, cache, order, tree, omap, hooks, run, recent,
                 lastBound, scoped, lastOp, ops, thr, inst>>

\* s2 = ResourceIdentifier(s).get_quakeml_uri_str(authority)
Reformat(u) ==
  /\ uri.stage = "formatted"
  /\ uri.err = None
  /\ LET r == get_quakeml_uri_str(uri.ret, uri.authority, u)
     IN uri' = [uri EXCEPT !.stage = "reformatted", !.id2 = r.self_id,
                           !.err2 = r.err, !.ret2 = r.ret]
  /\ UNCHANGED <<hs, live, cache, order, tree, omap, hooks, run, recent,
                 lastBound, scoped, lastOp, ops, thr, inst>>

NextUri ==
  \/ \E u \in Uuids : Format(u)
  \/ \E u \in Uuids : Reformat(u)

SpecUri == InitUri /\ [][NextUri]_vars

\* C15: to_standard_uri returns a conformant id unchanged; the string it
\* returns for any id is returned again when a handle built from it is
\* formatted; the handle's own id string is the same after the call as
\* before, whether it returns or fails.
C15_UriIdempotent ==
  [][/\ uri'.stage = "formatted" =>
          /\ uri'.id = uri.id
          /\ Matches(uri.id) => uri'.err = None /\ uri'.ret = uri.id
     /\ uri'.stage = "reformatted" =>
          /\ uri'.err2 = None /\ uri'.ret2 = uri.ret
          /\ uri'.id2 = uri.ret /\ uri'.id = uri.id]_vars

\* C15 witness: a non-conformant id was prefixed, and formatting a handle
\* built from the result returned that result.
C15_Witness ==
  /\ uri.stage = "reformatted"
  /\ ~Matches(uri.id) /\ ~Blank(uri.id)
  /\ uri.ret = Smi \o <<":">> \o uri.authority \o <<"/">> \o uri.id
  /\ uri.ret2 = uri.ret

-----------------------------------------------------------------------------
\* Handles made from handles, from persisted state and from formatted ids;
\* generated ids; assignment of the id and of the prefix.

\* id(key): the raw value under which the descriptor interns a value that is
\* not a str or an int, here a _ResourceKey instance.
KeyAddr ==
  ("s" :> "@s") @@ ("t" :> "@t") @@ ("P1" :> "@P1") @@ ("P2" :> "@P2")

\* The _ResourceKey instance that unpickling makes of a persisted key: a new
\* instance that the interner does not know.
Unpickled ==
  ("s" :> "~s") @@ ("t" :> "~t") @@ ("P1" :> "~P1") @@ ("P2" :> "~P2")

Range(f) == {f[x] : x \in DOMAIN f}
AllKeys == Raws \cup Range(KeyAddr) \cup Range(Unpickled)

\* The characters of the id strings: "s" is a/b and "t" is smi:local/a/b.
TextOf ==
  ("s" :> <<"a", "/", "b">>) @@
  ("t" :> Smi \o <<":">> \o Local \o <<"/", "a", "/", "b">>)
NameOf(text) == CHOOSE i \in Ids : TextOf[i] = text

\* The prefixes of generated ids and the token uuid4 generates.
Prefixes == {<<"a">>, Smi \o <<":">> \o Local \o <<"/", "a">>}
Token == <<"b">>

\* The id property of a handle that is not fixed: prefix, "/", uuid.
generated_id(prefix) ==
  LET id == IF Len(prefix) > 0 /\ prefix[Len(prefix)] = "/"
              THEN prefix ELSE prefix \o <<"/">>
  IN NameOf(id \o Token)

\* _ResourceKeyDescriptor.__set__(instance, value): nothing for None; the key
\* of the value for a str or an int, else the key of id(value).
descriptor_set(S, h, field, value, isobject) ==
  IF value = None THEN S
  ELSE LET raw == IF isobject THEN KeyAddr[value] ELSE value
       IN [get_resource_key(S, raw) EXCEPT !.hs[h][field] = raw]

\* (a variant that does not copy the recorded object identity)
from_handle_without_binding(S, g, h) ==
  [S EXCEPT !.hs[g] = [S.hs[h] EXCEPT !.res = None, !.oid = None]]

\* ResourceIdentifier.__init__(id = h): self.__dict__.update(id.__dict__)
from_handle(S, g, h) == [S EXCEPT !.hs[g] = [S.hs[h] EXCEPT !.res = None]]

\* ResourceIdentifier.__deepcopy__: new.__dict__.update(self.__dict__), then
\* new._parent_key = None through the descriptor.
deepcopy(S, g, h) ==
  descriptor_set([S EXCEPT !.hs[g] = [S.hs[h] EXCEPT !.res = None]],
                 g, "pkey", None, FALSE)

\* ResourceIdentifier.__setstate__(state): state holds the id string, the
\* _object_id and unpickled instances of the keys the pickled handle had.
setstate(S, g, id, oid, p) ==
  LET S1 == [S EXCEPT !.hs[g] =
               [alive |-> TRUE, id |-> id, fixed |-> TRUE, prefix |-> <<>>,
                rkey |-> Unpickled[id],
                pkey |-> IF p = None THEN None ELSE Unpickled[p],
                oid |-> oid, res |-> None]]
      S2 == descriptor_set(S1, g, "pkey", None, FALSE)
      S3 == get_resource_key(S2, id)
  IN descriptor_set(S3, g, "rkey", id, TRUE)

\* The id string get_quakeml_uri_str returns for a handle with this id.
quakeml_id(id) == NameOf(get_quakeml_uri_str(TextOf[id], Local, Token).ret)

\* ResourceIdentifier.get_quakeml_id: the new handle g, the resolve of h, and
\* the bind of g with warn = False and parent = h._parent_key (a key).
get_quakeml_id(S, g, h) ==
  LET S1 == init_handle(S, g, quakeml_id(S.hs[h].id), None)
      S2 == get_referred_object(S1, h)
      pk == S2.hs[h].pkey
  IN IF S2.run.out = None THEN S2
     ELSE set_referred_object(S2, g, S2.run.out, FALSE,
                              IF pk = None THEN None ELSE KeyAddr[pk])

\* id setter with a string: fixed = True, the warning, __dict__["id"] = value
set_id(S, h, value) ==
  [S EXCEPT !.hs[h].fixed = TRUE, !.hs[h].id = value]

\* prefix setter with a string; the id property of a generated id follows it.
set_prefix(S, h, value) ==
  [S EXCEPT !.hs[h].prefix = value,
            !.hs[h].id = IF S.hs[h].fixed THEN @ ELSE generated_id(value)]

\* ResourceIdentifier.__init__(id = None, prefix = prefix)
generate(S, h, prefix) ==
  LET id == generated_id(prefix)
  IN [get_resource_key(S, id) EXCEPT
        !.hs[h] = [alive |-> TRUE, id |-> id, fixed |-> FALSE,
                   prefix |-> prefix, rkey |-> id, pkey |-> None,
                   oid |-> None, res |-> None]]

Done(S, op) ==
  /\ Commit(S)
  /\ run' = IdleRun
  /\ lastOp' = op
  /\ UNCHANGED others

\* g = ResourceIdentifier(h)
FromHandle(g, h) ==
  /\ run.pc = "idle" /\ Tick /\ FirstFree(g) /\ hs[h].alive
  /\ Done(from_handle(State, g, h), [NoOp EXCEPT !.op = "from", !.h = g, !.src = h])

\* g = h.copy()
Copy(g, h) ==
  /\ run.pc = "idle" /\ Tick /\ FirstFree(g) /\ hs[h].alive
  /\ Done(deepcopy(State, g, h), [NoOp EXCEPT !.op = "copy", !.h = g, !.src = h])

\* g = pickle.loads(data), data the pickle of a handle with a fixed id
Restore(g, id, oid, p) ==
  /\ run.pc = "idle" /\ Tick /\ FirstFree(g)
  /\ Done(setstate(State, g, id, oid, p),
          [NoOp EXCEPT !.op = "restore", !.h = g, !.prev = p])

\* g = h.get_quakeml_id()
ToStandard(g, h) ==
  /\ run.pc = "idle" /\ Tick /\ FirstFree(g) /\ hs[h].alive
  /\ hs[h].pkey \in DOMAIN KeyAddr \cup {None}
  /\ LET S1 == get_quakeml_id(State, g, h)
     IN Done(S1, [NoOp EXCEPT !.op = "standard", !.h = g, !.src = h,
                              !.out = S1.hs[g].oid,
                              !.warns = IF S1.hs[g].oid = None THEN {}
                                        ELSE S1.run.warns])

\* h.id = value
SetId(h, value) ==
  /\ run.pc = "idle" /\ Tick /\ hs[h].alive
  /\ hs[h].id # value
  /\ Done(set_id(State, h, value),
          [NoOp EXCEPT !.op = "set_id", !.h = h, !.warns = {"IdOverwritten"}])

\* h.prefix = value, for a handle with a generated id
SetPrefix(h, value) ==
  /\ run.pc = "idle" /\ Tick /\ hs[h].alive
  /\ ~hs[h].fixed /\ hs[h].prefix # value
  /\ Done(set_prefix(State, h, value), [NoOp EXCEPT !.op = "set_prefix", !.h = h])

\* g = ResourceIdentifier(prefix = prefix); the tokens of two handles differ,
\* so one generated id is in use at a time.
Generate(g, prefix) ==
  /\ run.pc = "idle" /\ Tick /\ FirstFree(g)
  /\ \A h \in Handles : hs[h].fixed
  /\ Done(generate(State, g, prefix), [NoOp EXCEPT !.op = "other"])

NextLife ==
  \/ \E h \in Handles, id \in CoreIds, p \in {None, "P1"}, o \in {None, "X", "Y"} :
       Construct(h, id, p, o)
  \/ \E h \in Handles : Drop(h)
  \/ \E h \in Handles, o \in {"X", "Y"} : Bind(h, o, TRUE, None)
  \/ \E h \in Handles : Resolve(h)
  \/ \E o \in {"X", "Y"} : KillObj(o)
  \/ \E k \in AllKeys : ReclaimKey(k)
  \/ \E g, h \in Handles : FromHandle(g, h)
  \/ \E g, h \in Handles : Copy(g, h)
  \/ \E g \in Handles, id \in CoreIds, oid \in {None, "X"}, p \in {None, "P1"} :
       Restore(g, id, oid, p)
  \/ \E g, h \in Handles : ToStandard(g, h)
  \/ \E h \in Handles, v \in Ids : SetId(h, v)
  \/ \E h \in Handles, v \in Prefixes : SetPrefix(h, v)
  \/ \E g \in Handles, v \in Prefixes : Generate(g, v)

SpecLife == Init /\ [][NextLife]_vars

\* Construction, binding and resolving with the id and the prefix assigned
\* after construction.
NextDrift ==
  \/ \E h \in Handles, id \in CoreIds, p \in {None, "P1"}, o \in {None, "X", "Y"} :
       Construct(h, id, p, o)
  \/ \E g \in Handles, v \in Prefixes : Generate(g, v)
  \/ \E h \in Handles : Drop(h)
  \/ \E h \in Handles, o \in {"X", "Y"} : Bind(h, o, TRUE, None)
  \/ \E h \in Handles : Resolve(h)
  \/ \E h \in Handles, v \in Ids : SetId(h, v)
  \/ \E h \in Handles, v \in Prefixes : SetPrefix(h, v)
  \/ \E o \in {"X", "Y"} : KillObj(o)
  \/ \E k \in AllKeys : ReclaimKey(k)

SpecDrift == Init /\ [][NextDrift]_vars

-----------------------------------------------------------------------------
\* C12: a copy of a handle has the key instance of the original as its
\* ResourceKey and no ParentKey, also when the original has a ParentKey, and
\* so finds nothing through the original's parent scope.
C12_AsStated ==
  lastOp.op = "copy" =>
    /\ hs[lastOp.h].rkey = hs[lastOp.src].rkey
    /\ hs[lastOp.h].pkey = None
    /\ ScopeCand(lastOp.h) = None

\* C13: a handle materialized from persisted state has no ParentKey, and its
\* ResourceKey is the key the interner returns for its id string, whatever
\* keys the persisted state contained.
C13_AsStated ==
  lastOp.op = "restore" =>
    /\ hs[lastOp.h].pkey = None
    /\ hs[lastOp.h].rkey = hs[lastOp.h].id
    /\ hs[lastOp.h].rkey \in cache

\* C14: when the original resolves to an object, to_standard_handle binds
\* that object to the new handle without a RebindingConflict, the new handle
\* has the ParentKey of the original, and the binding is recorded in the
\* Parent Scope Tree under that key.
C14_AsStated ==
  lastOp.op = "standard" /\ lastOp.out # None =>
    LET g == lastOp.h
        h == lastOp.src
    IN /\ hs[g].oid = hs[h].oid
       /\ "RebindingConflict" \notin lastOp.warns
       /\ hs[g].pkey = hs[h].pkey
       /\ hs[h].pkey # None =>
            /\ hs[h].pkey \in DOMAIN tree
            /\ hs[g].rkey \in DOMAIN tree[hs[h].pkey]
            /\ tree[hs[h].pkey][hs[g].rkey] = object_key(hs[g])

\* The key instances that are alive: the rows of the interner, the keys the
\* handles hold and the keys of the rows of the registry.
HeldKeys ==
  UNION {{hs[h].rkey, hs[h].pkey} : h \in {x \in Handles : hs[x].alive}} \ {None}
LiveKeys ==
  cache \cup HeldKeys \cup DOMAIN order \cup DOMAIN tree
        \cup UNION {DOMAIN tree[k] : k \in DOMAIN tree}

\* The raw value a key instance was made for.
RawOfKey(k) ==
  IF \E r \in DOMAIN Unpickled : Unpickled[r] = k
    THEN CHOOSE r \in DOMAIN Unpickled : Unpickled[r] = k
    ELSE k

\* C16: at most one live ResourceKey instance per raw value, counting the
\* keys held by handles and registry rows, after any sequence of operations;
\* a copy of a handle holds the very key instance of its original.
C16_AsStated ==
  /\ \A k1, k2 \in LiveKeys : RawOfKey(k1) = RawOfKey(k2) => k1 = k2
  /\ lastOp.op \in {"copy", "from"} => hs[lastOp.h].rkey = hs[lastOp.src].rkey

\* C19: a handle constructed from another handle has that handle's key
\* instance, recorded object identity, id string and fixed/generated kind,
\* and resolves to what the source resolves to.
C19_FromHandleCopiesState ==
  lastOp.op = "from" =>
    LET g == lastOp.h
        h == lastOp.src
    IN /\ hs[g].rkey = hs[h].rkey
       /\ hs[g].oid = hs[h].oid
       /\ hs[g].id = hs[h].id
       /\ hs[g].fixed = hs[h].fixed
       /\ hs[g].prefix = hs[h].prefix
       /\ Out(g) = Out(h)

\* C19 witness: the source is bound to a live object that is not the one
\* bound last under the id, and the new handle resolves to the source's.
C19_Witness ==
  /\ lastOp.op = "from"
  /\ hs[lastOp.src].oid \in live
  /\ lastBound[hs[lastOp.src].id] \in live \ {hs[lastOp.src].oid}
  /\ Out(lastOp.h) = hs[lastOp.src].oid

\* C20: for every handle that recorded a bound-object identity, its
\* ResourceKey is the interned key of its current id string, and the second
\* element of the CompositeKey of its rows in the Assignment Order and the
\* Parent Scope Tree is that id string; also after the id or the prefix was
\* assigned.
C20_AsStated ==
  \A h \in Handles :
    Alive(h) /\ ~Unbound(h) =>
      /\ hs[h].rkey = hs[h].id
      /\ \A i \in 1..Len(OrderRow(hs[h].rkey)) :
           OrderRow(hs[h].rkey)[i][1] = hs[h].oid
             => OrderRow(hs[h].rkey)[i][2] = hs[h].id
      /\ /\ hs[h].pkey \in DOMAIN tree
         /\ hs[h].rkey \in DOMAIN tree[hs[h].pkey]
         /\ tree[hs[h].pkey][hs[h].rkey][1] = hs[h].oid
         => tree[hs[h].pkey][hs[h].rkey][2] = hs[h].id

-----------------------------------------------------------------------------
\* _ResourceKey.get_resource_key executed by threads, one statement at a
\* time. Key instances are numbered in the order of their creation; inst.of
\* gives the raw value an instance was created for, inst.cache the instance
\* _singleton_cache maps a raw value to (0: no row), inst.kept the instances
\* the application stored in its handles.

\* The instances some local variable or some handle refers to.
Referenced(I, T) ==
  (I.kept \cup {T[t].single : t \in Threads} \cup {T[t].key : t \in Threads}) \ {0}

\* A WeakValueDictionary drops the row of an instance nobody refers to.
Sweep(I, T) ==
  [I EXCEPT !.cache = [r \in DOMAIN I.cache |->
                         IF I.cache[r] \in Referenced(I, T) THEN I.cache[r] ELSE 0]]

\* if unique_id not in _ResourceKey._singleton_cache:
intern_check(I, f) ==
  [inst |-> I,
   frame |-> [f EXCEPT !.pc = IF I.cache[f.raw] = 0 THEN "create" ELSE "lookup"]]

\* single = _ResourceKey()
intern_create(I, f) ==
  [inst |-> [I EXCEPT !.of = Append(@, f.raw)],
   frame |-> [f EXCEPT !.single = Len(I.of) + 1, !.pc = "store"]]

\* _ResourceKey._singleton_cache[unique_id] = single
intern_store(I, f) ==
  [inst |-> [I EXCEPT !.cache[f.raw] = f.single],
   frame |-> [f EXCEPT !.pc = "lookup"]]

\* return _ResourceKey._singleton_cache[unique_id]
intern_lookup(I, f) ==
  [inst |-> I,
   frame |-> IF I.cache[f.raw] = 0
               THEN [f EXCEPT !.err = "KeyError", !.pc = "done"]
               ELSE [f EXCEPT !.key = I.cache[f.raw], !.pc = "done"]]

intern_step(I, f) ==
  CASE f.pc = "check" -> intern_check(I, f)
    [] f.pc = "create" -> intern_create(I, f)
    [] f.pc = "store" -> intern_store(I, f)
    [] f.pc = "lookup" -> intern_lookup(I, f)

Tables == <<hs, live, cache, order, tree, omap, hooks, run, recent, lastBound,
            scoped, lastOp, uri>>

\* Thread t calls _ResourceKey.get_resource_key(raw).
InternCall(t, raw) ==
  /\ thr[t].pc = "idle"
  /\ Tick
  /\ thr' = [thr EXCEPT ![t] = [IdleFrame EXCEPT !.pc = "check", !.raw = raw]]
  /\ UNCHANGED <<inst, Tables>>

\* Thread t executes its next statement.
InternStep(t) ==
  /\ thr[t].pc \in {"check", "create", "store", "lookup"}
  /\ LET r == intern_step(inst, thr[t])
         T == [thr EXCEPT ![t] = r.frame]
     IN /\ thr' = T
        /\ inst' = Sweep(r.inst, T)
  /\ UNCHANGED <<ops, Tables>>

\* The call returns; the caller stores the key in a handle (l.70).
InternReturn(t) ==
  /\ thr[t].pc = "done"
  /\ LET I == [inst EXCEPT !.kept = IF thr[t].err = None
                                       THEN @ \cup {thr[t].key} ELSE @]
         T == [thr EXCEPT ![t] = IdleFrame]
     IN /\ thr' = T
        /\ inst' = Sweep(I, T)
  /\ UNCHANGED <<ops, Tables>>

\* The handles that hold key instance n go out of scope.
Release(n) ==
  /\ n \in inst.kept
  /\ Tick
  /\ inst' = Sweep([inst EXCEPT !.kept = @ \ {n}], thr)
  /\ UNCHANGED <<thr, Tables>>

NextIntern ==
  \/ \E t \in Threads, raw \in Ids : InternCall(t, raw)
  \/ \E t \in Threads : InternStep(t)
  \/ \E t \in Threads : InternReturn(t)
  \/ \E n \in 1..MaxOps : Release(n)

SpecIntern == Init /\ [][NextIntern]_vars

\* C17: when threads intern the same raw value concurrently, every call
\* completes without error and no two live key instances represent one raw
\* value, so concurrent calls return the same instance.
C17_AsStated ==
  /\ \A t \in Threads : thr[t].err = None
  /\ \A n1, n2 \in Referenced(inst, thr) :
       inst.of[n1] = inst.of[n2] => n1 = n2

-----------------------------------------------------------------------------
\* set_referred_object executed by threads, one statement at a time. The
\* frame of the executing thread takes the place of run.

\* l.411-417: the warning, then self._object_id = id(referred_object)
write_object_id(S) ==
  LET r == S.run
      conflict == r.warn /\ r.old # None /\ ObjValue[r.old] # ObjValue[r.obj]
  IN [S EXCEPT !.run.warns = IF conflict THEN @ \cup {"RebindingConflict"} ELSE @,
               !.hs[r.self].oid = r.obj,
               !.run.pc = "write_tree"]

\* l.418-424: the parent key and the row of the parent scope tree
write_tree(S) ==
  LET r == S.run
      h == S.hs[r.self]
      S1 == IF r.parent # None THEN get_resource_key(S, r.parent) ELSE S
      pk == IF r.parent # None THEN r.parent ELSE h.pkey
      S2 == [S1 EXCEPT !.hs[r.self].pkey = pk]
  IN [tree_put(S2, h.rkey, pk, object_key(h)) EXCEPT !.run.pc = "write_omap"]

\* l.426: _id_object_map[self._object_key] = referred_object
write_omap(S) ==
  [omap_put(S, object_key(S.hs[S.run.self]), S.run.obj) EXCEPT
     !.run.pc = "order_check"]

\* l.427: if self._resource_key not in id_order
order_check(S) ==
  [S EXCEPT !.run.pc = IF S.hs[S.run.self].rkey \in DOMAIN S.order
                         THEN "order_push" ELSE "order_init"]

\* l.428: id_order[self._resource_key] = []
order_init(S) ==
  [S EXCEPT !.order = Put(@, S.hs[S.run.self].rkey, <<>>),
            !.run.pc = "order_push"]

\* l.429: id_order[self._resource_key].append(self._object_key)
order_push(S) ==
  LET h == S.hs[S.run.self]
  IN IF WeakKeyExc(S.order, h.rkey) # None
       THEN Raise(S, WeakKeyExc(S.order, h.rkey))
       ELSE [S EXCEPT !.order[h.rkey] = Append(@, object_key(h)),
                      !.run.pc = "done"]

bind_step(S) ==
  CASE S.run.pc = "bind_old" -> bind_old(S)
    [] S.run.pc = "bind_tail" -> bind_tail(S)
    [] S.run.pc = "bind_write" -> write_object_id(S)
    [] S.run.pc = "write_tree" -> write_tree(S)
    [] S.run.pc = "write_omap" -> write_omap(S)
    [] S.run.pc = "order_check" -> order_check(S)
    [] S.run.pc = "order_init" -> order_init(S)
    [] S.run.pc = "order_push" -> order_push(S)

\* Thread t calls h.set_referred_object(o); the threads use different handles
\* and bind different objects.
BindCall(t, h, o) ==
  /\ thr[t].pc = "idle"
  /\ Tick
  /\ hs[h].alive
  /\ o \in live
  /\ \A u \in Threads : thr[u].self # h /\ thr[u].obj # o
  /\ thr' = [thr EXCEPT ![t] = StartBind(State, h, o, TRUE, None).run @@ IdleFrame]
  /\ UNCHANGED <<hs, live, cache, order, tree, omap, hooks, run, recent,
                 lastBound, scoped, lastOp, inst, uri>>

\* Thread t executes its next statement.
BindStep(t) ==
  /\ thr[t].pc \notin {"idle", "done"}
  /\ LET S == bind_step([State EXCEPT !.run = thr[t]])
     IN /\ Commit(S)
        /\ thr' = [thr EXCEPT ![t] = S.run]
  /\ UNCHANGED <<run, lastOp, ops, inst, uri>>

\* Both threads have returned from their calls.
BindReturn ==
  /\ \A t \in Threads : thr[t].pc = "done"
  /\ thr' = NoThreads
  /\ UNCHANGED <<hs, live, cache, order, tree, omap, hooks, run, recent,
                 lastBound, scoped, lastOp, ops, inst, uri>>

NextThreads ==
  \/ \E h \in Handles, id \in CoreIds : Construct(h, id, None, None)
  \/ \E t \in Threads, h \in Handles, o \in Objs : BindCall(t, h, o)
  \/ \E t \in Threads : BindStep(t)
  \/ BindReturn

SpecThreads == Init /\ [][NextThreads]_vars

\* C18: when two threads bind live objects through handles that share one
\* ResourceKey, also as the first binds under that key, then after both
\* binds completed the Assignment Order row of the key contains both
\* CompositeKeys and the Object Map has both rows.
C18_AsStated ==
  (\A t \in Threads : thr[t].pc = "done") =>
    \A t \in Threads :
      LET h == hs[thr[t].self]
          k == <<thr[t].obj, h.id>>
      IN /\ thr[t].err = None
         /\ k \in DOMAIN omap /\ omap[k] = thr[t].obj
         /\ \E i \in 1..Len(OrderRow(h.rkey)) : OrderRow(h.rkey)[i] = k

-----------------------------------------------------------------------------
\* Resolving after the id or the prefix of a handle was assigned.

\* The loop of _get_newest_object_with_same_resource_id run to its end.
RECURSIVE NewestEnd(_)
NewestEnd(S) == IF S.run.pc = "newest" THEN NewestEnd(newest(S)) ELSE S

\* The object key whose _id_object_map row a call of h.get_referred_object()
\* made now takes its result from: <<key>>, or <<>> when direct lookup,
\* parent scope and recency fallback yield no object.
TakenFrom(h) ==
  LET S1 == direct(StartResolve(State, h))
      S2 == similar(S1)
      S3 == NewestEnd(S2)
  IN IF S1.run.pc = "done" THEN <<object_key(hs[h])>>
     ELSE IF S2.run.pc = "bind_old" THEN <<tree[hs[h].pkey][hs[h].rkey]>>
     ELSE IF S3.run.pc = "bind_old"
            THEN <<S3.order[hs[h].rkey][Len(S3.order[hs[h].rkey])]>>
     ELSE <<>>

\* C21: the object that direct lookup, parent scope or recency fallback
\* returns for a handle is taken from a binding whose recorded id string is
\* the handle's current id string, also after the id or the prefix of the
\* handle was assigned following construction.
C21_ResolveMatchesCurrentId ==
  \A h \in Handles :
    Alive(h) /\ TakenFrom(h) # <<>> =>
      /\ TakenFrom(h)[1] \in DOMAIN omap
      /\ Out(h) = omap[TakenFrom(h)[1]]
      /\ TakenFrom(h)[1][2] = hs[h].id

\* C21 witness: the id of a bound handle was assigned, its object is still
\* bound under the old id string, and a resolve of the handle then returned
\* absent instead of that object.
C21_Witness ==
  /\ lastOp.op = "resolve"
  /\ lastOp.out = None
  /\ hs[lastOp.h].oid \in live
  /\ hs[lastOp.h].id # hs[lastOp.h].rkey
  /\ <<hs[lastOp.h].oid, hs[lastOp.h].rkey>> \in DOMAIN omap

-----------------------------------------------------------------------------
\* set_referred_object with a parent supplied after construction.

NextScope ==
  \/ \E h \in Handles, id \in CoreIds, p \in Parents \cup {None},
        o \in {None, "X", "Y"} : Construct(h, id, p, o)
  \/ \E h \in Handles : Drop(h)
  \/ \E h \in Handles, o \in {"X", "Y"}, w \in BOOLEAN, p \in Parents \cup {None} :
       Bind(h, o, w, p)
  \/ \E h \in Handles : Resolve(h)
  \/ \E o \in {"X", "Y"} : KillObj(o)
  \/ \E k \in Raws : ReclaimKey(k)

SpecScope == Init /\ [][NextScope]_vars

\* What holds after h.set_referred_object(o, parent = p).
BindPost(h, o, p) ==
  LET k == <<o, hs'[h].id>>
      pk == hs'[h].pkey
      rk == hs'[h].rkey
  IN /\ hs'[h].oid = o
     /\ k \in DOMAIN omap' /\ omap'[k] = o
     /\ rk \in DOMAIN order' /\ Len(order'[rk]) > 0
     /\ order'[rk][Len(order'[rk])] = k
     /\ pk = IF p # None THEN p ELSE hs[h].pkey
     /\ IF pk # None
          THEN pk \in DOMAIN tree' /\ rk \in DOMAIN tree'[pk] /\ tree'[pk][rk] = k
          ELSE tree' = tree
     /\ Out(h)' = o

\* C22: after bind(handle, object, parent) the handle records the identity of
\* object, the Object Map maps the handle's CompositeKey to object, that key
\* is the last entry of the Assignment Order row of the handle's ResourceKey,
\* a supplied parent has replaced the handle's ParentKey, the Parent Scope
\* Tree row of a handle that then has a ParentKey holds the CompositeKey and
\* else the tree is unchanged, and a resolve of the handle returns object.
C22_BindPostcondition ==
  [][\A h \in Handles, o \in Objs, w \in BOOLEAN, p \in Parents \cup {None} :
       Bind(h, o, w, p) => BindPost(h, o, p)]_vars

\* C22 witness: a handle bound through one parent scope was bound to another
\* object with another parent supplied; the row of the new scope names the
\* new object, the row of the old scope still names the old one.
C22_Witness ==
  /\ lastOp.op = "bind" /\ lastOp.prev # None /\ lastOp.prev # lastOp.obj
  /\ hs[lastOp.h].pkey \in DOMAIN tree
  /\ hs[lastOp.h].rkey \in DOMAIN tree[hs[lastOp.h].pkey]
  /\ tree[hs[lastOp.h].pkey][hs[lastOp.h].rkey] = object_key(hs[lastOp.h])
  /\ \E q \in DOMAIN tree \ {hs[lastOp.h].pkey} :
       /\ hs[lastOp.h].rkey \in DOMAIN tree[q]
       /\ tree[q][hs[lastOp.h].rkey][1] = lastOp.prev
  /\ \A g \in Handles \ {lastOp.h} : ~Alive(g)
  /\ Out(lastOp.h) = lastOp.obj

-----------------------------------------------------------------------------
\* _get_newest_object_with_same_resource_id on its own.

\* The call for handle h, made now.
StartNewest(h) ==
  [State EXCEPT !.run = [IdleRun EXCEPT !.pc = "newest", !.self = h]]

\* The number of iterations of its while loop: the turns that find an entry.
RECURSIVE Turns(_)
Turns(S) ==
  IF S.run.pc # "newest" THEN 0
  ELSE LET rk == S.hs[S.run.self].rkey
       IN (IF rk \in DOMAIN S.order /\ Len(S.order[rk]) > 0 THEN 1 ELSE 0)
            + Turns(newest(S))

\* C23: the recency fallback ends within as many iterations as the Assignment
\* Order row has entries, each iteration returning or removing one tail
\* entry; every entry removed names an object that is gone or an id string
\* other than the handle's; the entry returned and the entries below it stay
\* in the row in their order.
C23_RecencyPrunesOnlyStale ==
  \A h \in Handles :
    Alive(h) =>
      LET row == OrderRow(hs[h].rkey)
          E == NewestEnd(StartNewest(h))
          left == IF hs[h].rkey \in DOMAIN E.order THEN E.order[hs[h].rkey] ELSE <<>>
          n == Len(left)
          found == E.run.pc = "bind_old"
      IN /\ Turns(StartNewest(h)) <= Len(row)
         /\ Turns(StartNewest(h)) = (Len(row) - n) + (IF found THEN 1 ELSE 0)
         /\ n <= Len(row) /\ left = SubSeq(row, 1, n)
         /\ \A i \in (n + 1)..Len(row) :
              row[i] \notin DOMAIN omap \/ row[i][2] # hs[h].id
         /\ found => /\ n > 0 /\ row[n] \in DOMAIN omap
                     /\ E.run.obj = omap[row[n]]
         /\ ~found => n = 0

\* C23 witness: a resolve went through the recency fallback, which removed
\* the entry of an object that is gone and returned the object of the entry
\* below it.
C23_Witness ==
  /\ lastOp.op = "resolve" /\ lastOp.out # None /\ lastOp.called = <<>>
  /\ "LivenessLost" \in lastOp.warns
  /\ hs[lastOp.h].pkey = None
  /\ \E i \in 1..Len(recent[hs[lastOp.h].id]) :
       /\ recent[hs[lastOp.h].id][i] \notin live
       /\ \A j \in 1..Len(OrderRow(hs[lastOp.h].rkey)) :
            OrderRow(hs[lastOp.h].rkey)[j][1] # recent[hs[lastOp.h].id][i]
  /\ Len(OrderRow(hs[lastOp.h].rkey)) >= 2

-----------------------------------------------------------------------------
\* C24: a resolve signals LivenessLost exactly when the direct lookup misses
\* and the handle recorded the identity of an object that is now dead; never
\* for a handle that recorded no binding, and never while the recorded object
\* of the handle is live.
C24_AsStated ==
  [][lastOp'.op = "resolve" =>
       LET h == lastOp'.h
       IN /\ "LivenessLost" \in lastOp'.warns
               <=> /\ DirectCand(h) = None
                   /\ hs[h].oid # None /\ hs[h].oid \notin live
          /\ hs[h].oid = None => "LivenessLost" \notin lastOp'.warns
          /\ hs[h].oid \in live => "LivenessLost" \notin lastOp'.warns]_vars

-----------------------------------------------------------------------------
\* Assignment of a value that is not a string to the id.

\* id setter with a value that is not a str: self.fixed = True, then the
\* TypeError. The id property of a fixed handle is __dict__.get("id"), which
\* is None for a handle whose id was generated.
set_id_nonstring(S, h) ==
  Raise([S EXCEPT !.hs[h].fixed = TRUE,
                  !.hs[h].id = IF S.hs[h].fixed THEN @ ELSE None],
        "TypeError")

\* h.id = value, value not a string
SetIdNonString(h) ==
  /\ run.pc = "idle" /\ Tick /\ hs[h].alive
  /\ LET S1 == set_id_nonstring(State, h)
     IN Done(S1, [NoOp EXCEPT !.op = "set_id_nonstring", !.h = h,
                              !.out = S1.run.err])

NextAssign ==
  \/ \E h \in Handles, id \in CoreIds, o \in {None, "X"} : Construct(h, id, None, o)
  \/ \E g \in Handles, v \in Prefixes : Generate(g, v)
  \/ \E h \in Handles : Drop(h)
  \/ \E h \in Handles : Resolve(h)
  \/ \E h \in Handles, v \in Ids : SetId(h, v)
  \/ \E h \in Handles, v \in Prefixes : SetPrefix(h, v)
  \/ \E h \in Handles : SetIdNonString(h)

SpecAssign == Init /\ [][NextAssign]_vars

\* C25: assigning a value that is not a string to the id of a handle, fixed
\* or generated, fails with InvalidIdType and leaves the id string and the
\* fixed/generated kind of the handle as they were.
C25_AsStated ==
  [][lastOp'.op = "set_id_nonstring" =>
       /\ lastOp'.out = "TypeError"
       /\ hs'[lastOp'.h].id = hs[lastOp'.h].id
       /\ hs'[lastOp'.h].fixed = hs[lastOp'.h].fixed]_vars

-----------------------------------------------------------------------------
\* What a resolve writes.

\* The step left the registry, the hook list and the binding of h alone.
ReadOnly(h) ==
  /\ omap' = omap /\ order' = order /\ tree' = tree /\ hooks' = hooks
  /\ hs'[h].oid = hs[h].oid /\ hs'[h].pkey = hs[h].pkey

\* The step changed at most the Assignment Order row of h's key, of which it
\* removed entries from the tail.
PrunedOnly(h) ==
  /\ omap' = omap /\ tree' = tree /\ hooks' = hooks
  /\ hs'[h].oid = hs[h].oid /\ hs'[h].pkey = hs[h].pkey
  /\ DOMAIN order' = DOMAIN order
  /\ \A k \in DOMAIN order :
       IF k = hs[h].rkey
         THEN /\ Len(order'[k]) <= Len(order[k])
              /\ order'[k] = SubSeq(order[k], 1, Len(order'[k]))
         ELSE order'[k] = order[k]

\* A resolve of h that finds the object in the direct lookup returns it,
\* writes nothing, signals nothing and invokes no hook.
DirectHitReadOnly(h) ==
  DirectCand(h) # None =>
    /\ lastOp'.out = DirectCand(h)
    /\ ReadOnly(h)
    /\ lastOp'.warns = {} /\ lastOp'.called = <<>>

\* C26 as stated: a resolve that succeeds in the direct lookup is read-only,
\* and only a resolve that succeeds through the parent scope, the recency
\* fallback or a hook writes to the registry.
C26_AsStated ==
  [][lastOp'.op = "resolve" =>
       /\ DirectHitReadOnly(lastOp'.h)
       /\ ~ReadOnly(lastOp'.h) =>
            DirectCand(lastOp'.h) = None /\ lastOp'.out # None]_vars

\* C26 amended: a resolve that succeeds in the direct lookup is read-only; a
\* resolve that writes to the registry missed in the direct lookup, and it
\* either succeeded through the parent scope, the recency fallback or a hook,
\* or invoked a hook, or did no more than remove entries from the tail of the
\* Assignment Order row of the handle's key, which the recency fallback does
\* also when the resolve returns absent.
C26_DirectHitReadOnly ==
  [][lastOp'.op = "resolve" =>
       /\ DirectHitReadOnly(lastOp'.h)
       /\ ~ReadOnly(lastOp'.h) =>
            /\ DirectCand(lastOp'.h) = None
            /\ \/ lastOp'.out # None
               \/ lastOp'.called # <<>>
               \/ PrunedOnly(lastOp'.h)]_vars

\* C26 witness: a resolve returned the object of the handle's own binding
\* without a notification or a hook while the last entry of the Assignment
\* Order row names another live object; it appended nothing to the row.
C26_Witness ==
  /\ lastOp.op = "resolve" /\ lastOp.out # None
  /\ lastOp.warns = {} /\ lastOp.called = <<>>
  /\ hs[lastOp.h].oid = lastOp.out
  /\ Len(OrderRow(hs[lastOp.h].rkey)) > 0
  /\ LET k == OrderRow(hs[lastOp.h].rkey)[Len(OrderRow(hs[lastOp.h].rkey))]
     IN k \in DOMAIN omap /\ k[2] = hs[lastOp.h].id /\ k[1] # lastOp.out

====
